---- MODULE Spec2Model ----
(***************************************************************************)
(* Task manager backend: the command interpreter (call_llm_for_command),   *)
(* the dispatcher (process_command) and the task store (MongoDBManager).   *)
(*                                                                         *)
(* Python values are modelled uniformly as sequences of string atoms:      *)
(*   - a str is the sequence of its pieces, "" is << >>, + is \o;          *)
(*   - None (and JSON null) is NONE;                                       *)
(*   - a JSON number is <<"#num", digits>>, a JSON array is <<"#list">>;   *)
(*   - a dict key is the sequence of its characters.                       *)
(* The pydantic behaviour modelled is that of pydantic 1.x, whose API      *)
(* (.dict(), Config.allow_population_by_field_name) the code is written    *)
(* against: Optional[str] accepts a number and converts it with str().     *)
(***************************************************************************)
EXTENDS Integers, Sequences, FiniteSets, TLC

VARIABLES
    api_key,     \* os.getenv("GEMINI_API_KEY", ""): a str, fixed for the process
    db_manager,  \* main.db_manager: TRUE when MongoDBManager() was constructed
    closed,      \* close_connection() has run (shutdown)
    tasks,       \* db.tasks: the stored documents, in natural (insertion) order
    nextOid,     \* the next ObjectId the store will generate
    now,         \* the clock datetime.now() reads
    pc,          \* per request: position of the process_command coroutine
    cmd,         \* per request: llm_response (a LLMCommand)
    result,      \* per request: action_result
    llmCalls,    \* per request: client.post calls made
    storeOps,    \* per request: add_task/update_task/delete_task calls made
    llm_in,      \* the LLM outcome handed to the interpreter (interpreter runs)
    last,        \* the last direct Task Store call: operation, arguments, return
    reads        \* the get_all_tasks return that no other store call has followed

vars == <<api_key, db_manager, closed, tasks, nextOid, now, pc, cmd, result,
          llmCalls, storeOps, llm_in, last, reads>>

(***************************************************************************)
(* Bounds.                                                                 *)
(***************************************************************************)
\* ObjectIds the store may generate in the request runs (creates are capped).
MaxIds == 1
\* ObjectIds the store may generate in the direct store runs.
MaxStoreIds == 1
\* Keys of a JSON object the model emits, in the interpreter runs.
MaxKeys == 2

(***************************************************************************)
(* Python values.                                                          *)
(***************************************************************************)
NONE == <<"#null">>
JNum == <<"#num", "7">>
JList == <<"#list">>
S(x) == <<x>>

IsNone(v) == v = NONE
IsNum(v) == Len(v) > 0 /\ v[1] = "#num"
IsList(v) == Len(v) > 0 /\ v[1] = "#list"
IsStr(v) == ~IsNone(v) /\ ~IsNum(v) /\ ~IsList(v)
\* Python truthiness of an Optional[str]: None and "" are falsy.
Truthy(v) == ~IsNone(v) /\ Len(v) > 0
\* str(v), as an f-string formats it.
Str(v) ==
    IF IsNone(v) THEN <<"None">>
    ELSE IF IsNum(v) THEN <<v[2]>>
    ELSE IF IsList(v) THEN <<"['x']">>
    ELSE v
\* a in b, for two str values.
Contains(b, a) ==
    \E i \in 1..(Len(b) + 1) :
        /\ i + Len(a) - 1 <= Len(b)
        /\ SubSeq(b, i, i + Len(a) - 1) = a

(***************************************************************************)
(* LLMCommand and its enums.                                               *)
(***************************************************************************)
Actions == {S("create"), S("read"), S("update"), S("delete"), S("unknown")}
valid_statuses == {S("pending"), S("completed"), S("in_progress"), S("cancelled")}

LLMCommand(a, t, d, sd, st, m) ==
    [action |-> a, task_id |-> t, description |-> d, start_date |-> sd,
     status |-> st, message |-> m]
UnknownCommand(m) == LLMCommand(S("unknown"), NONE, NONE, NONE, NONE, m)
NoCommand == LLMCommand(NONE, NONE, NONE, NONE, NONE, NONE)

\* A returned value, or the exception that left the block.
Ret(c) == [raised |-> "none", value |-> c]
Raise(e) == [raised |-> e, value |-> NoCommand]

MsgNoKey == S("Error de configuración: Clave API no encontrada.")
MsgNoAction == S("No pude determinar la acción del LLM. Por favor, sé más específico.")
MsgBadJson == S("El LLM devolvió un formato JSON inválido. Inténtalo de nuevo.")
MsgNoCandidates == S("No pude interpretar tu comando. Inténtalo de nuevo.")
MsgUnexpected == S("Ocurrió un error inesperado al procesar tu comando.")
MsgBadAction(v) ==
    S("La acción '") \o Str(v) \o S("' no es válida. Por favor, sé más específico.")
MsgHttp(code) ==
    S("Error del servidor al procesar tu comando: ") \o S(ToString(code)) \o S(".")

(***************************************************************************)
(* Text and JSON.                                                          *)
(***************************************************************************)
\* \w of a str pattern: letters, digits and the underscore.
WordChars ==
    {"a", "b", "c", "d", "e", "f", "g", "h", "i", "j", "k", "l", "m", "n", "o",
     "p", "q", "r", "s", "t", "u", "v", "w", "x", "y", "z", "_",
     "0", "1", "2", "3", "4", "5", "6", "7", "8", "9"}
Whitespace == {" ", "\n", "\t"}

\* s.strip()
RECURSIVE LStrip(_)
LStrip(s) ==
    IF Len(s) > 0 /\ Head(s) \in Whitespace THEN LStrip(Tail(s)) ELSE s
RECURSIVE RStrip(_)
RStrip(s) ==
    IF Len(s) > 0 /\ s[Len(s)] \in Whitespace
    THEN RStrip(SubSeq(s, 1, Len(s) - 1)) ELSE s
Strip(s) == RStrip(LStrip(s))

\* re.sub(r'[^\w]', '', k).strip()
IsWordChar(c) == c \in WordChars
cleaned_key(k) == Strip(SelectSeq(k, IsWordChar))

K_action == <<"a", "c", "t", "i", "o", "n">>
K_task_id == <<"t", "a", "s", "k", "_", "i", "d">>
K_description == <<"d", "e", "s", "c", "r", "i", "p", "t", "i", "o", "n">>
K_start_date == <<"s", "t", "a", "r", "t", "_", "d", "a", "t", "e">>
K_status == <<"s", "t", "a", "t", "u", "s">>
K_message == <<"m", "e", "s", "s", "a", "g", "e">>

\* A dict is the sequence of its items [k, v], keys distinct, in insertion order.
DictHas(d, k) == \E i \in 1..Len(d) : d[i].k = k
\* d.get(k)
DictGet(d, k) ==
    IF DictHas(d, k) THEN d[CHOOSE i \in 1..Len(d) : d[i].k = k].v ELSE NONE
\* d[k] = v
DictSet(d, k, v) ==
    IF DictHas(d, k)
    THEN [i \in 1..Len(d) |-> IF d[i].k = k THEN [k |-> k, v |-> v] ELSE d[i]]
    ELSE Append(d, [k |-> k, v |-> v])

\* for k, v in parsed_json.items(): clean_parsed_json[cleaned_key] = v
RECURSIVE CleanItems(_, _)
CleanItems(items, acc) ==
    IF items = << >> THEN acc
    ELSE CleanItems(Tail(items),
                    DictSet(acc, cleaned_key(Head(items).k), Head(items).v))
clean_parsed_json(parsed_json) == CleanItems(parsed_json, << >>)

(***************************************************************************)
(* The generated text is a sequence of tokens: prose, whitespace, the      *)
(* fence markers, and "{json}" standing for one JSON document (doc).       *)
(***************************************************************************)
FenceOpen == "<fence>json"
FenceClose == "<fence>"
JsonTok == "{json}"
\* <fence> is the three backquotes; both markers start with them.
IsFence(t) == t \in {FenceOpen, FenceClose}

\* re.search of line 253: the first json fence that a later fence closes
HasJsonBlock(toks) ==
    \E i \in 1..Len(toks) : toks[i] = FenceOpen /\ \E j \in (i + 1)..Len(toks) : IsFence(toks[j])
\* json_block_match.group(1).strip()
JsonBlock(toks) ==
    LET i == CHOOSE i \in 1..Len(toks) :
                 /\ toks[i] = FenceOpen
                 /\ \A h \in 1..(i - 1) : toks[h] # FenceOpen
        j == CHOOSE j \in (i + 1)..Len(toks) :
                 /\ IsFence(toks[j])
                 /\ \A h \in (i + 1)..(j - 1) : ~IsFence(toks[h])
    IN  Strip(SubSeq(toks, i + 1, j - 1))
json_string_to_parse(toks) ==
    IF HasJsonBlock(toks) THEN JsonBlock(toks) ELSE Strip(toks)
\* json.loads succeeds on exactly one JSON document, whitespace around it allowed.
JsonLoadsOk(str) == Strip(str) = <<JsonTok>>

(***************************************************************************)
(* LLMCommand built from clean_parsed_json: pydantic validates each field.  *)
(***************************************************************************)
\* Optional[str]
StrFieldOk(v) == ~IsList(v)
StrField(v) == IF IsNone(v) THEN NONE ELSE Str(v)
\* Optional[Literal["pending", "completed", "in_progress", "cancelled"]]
StatusFieldOk(v) == IsNone(v) \/ v \in valid_statuses
\* Literal["create", "read", "update", "delete", "unknown"], required
ActionFieldOk(v) == v \in Actions

ValidateCommand(d) ==
    LET a == DictGet(d, K_action)
        t == DictGet(d, K_task_id)
        ds == DictGet(d, K_description)
        sd == DictGet(d, K_start_date)
        st == DictGet(d, K_status)
        m == DictGet(d, K_message)
    IN  IF /\ ActionFieldOk(a)
           /\ StrFieldOk(t) /\ StrFieldOk(ds) /\ StrFieldOk(sd) /\ StrFieldOk(m)
           /\ StatusFieldOk(st)
        THEN Ret(LLMCommand(a, StrField(t), StrField(ds), StrField(sd), st, StrField(m)))
        ELSE Raise("ValidationError")

(***************************************************************************)
(* call_llm_for_command.  An LLM outcome is                                *)
(*   [net, status, body, shape, toks, doc]:                                *)
(*   net    "ok", or "error" when client.post raises;                      *)
(*   status the HTTP status code;                                          *)
(*   body   "json", or "not_json" when response.json() raises;             *)
(*   shape  what the envelope holds (see EnvelopeHasText);                 *)
(*   toks   the generated text; doc the JSON document in it:               *)
(*          [t |-> "object" | "array" | "string" | ..., items |-> dict].   *)
(***************************************************************************)
\* lines 244-247: candidates, content and parts are present and non-empty
EnvelopeHasText(shape) ==
    shape \notin {"no_candidates", "empty_candidates", "no_content", "no_parts",
                  "empty_parts"}

\* InterpretObject without the check of line 279: the action goes unchecked to
\* the model's validation.
InterpretObject_NoEnumCheck(parsed_json) ==
    LET clean == clean_parsed_json(parsed_json)
        action_value == DictGet(clean, K_action)
    IN  IF IsNone(action_value) THEN Ret(UnknownCommand(MsgNoAction))
        ELSE ValidateCommand(clean)

\* lines 266-283
InterpretObject(parsed_json) ==
    LET clean == clean_parsed_json(parsed_json)
        action_value == DictGet(clean, K_action)
    IN  IF IsNone(action_value) THEN Ret(UnknownCommand(MsgNoAction))
        ELSE IF action_value \notin Actions
        THEN Ret(UnknownCommand(MsgBadAction(action_value)))
        ELSE ValidateCommand(clean)

\* lines 262-286: the inner try
InnerTry(str, doc) ==
    LET r == IF ~JsonLoadsOk(str) THEN Raise("JSONDecodeError")
             ELSE IF doc.t # "object" THEN Raise("AttributeError")
             ELSE InterpretObject(doc.items)
    IN  IF r.raised = "JSONDecodeError" THEN Ret(UnknownCommand(MsgBadJson)) ELSE r

\* lines 233-289: the body of the outer try
OuterBody(out) ==
    IF out.net # "ok" THEN Raise("ConnectError")
    ELSE IF out.status >= 400 THEN Raise("HTTPStatusError")
    ELSE IF out.body # "json" THEN Raise("JSONDecodeError")
    ELSE IF out.shape = "not_dict" THEN Raise("AttributeError")
    ELSE IF ~EnvelopeHasText(out.shape) THEN Ret(UnknownCommand(MsgNoCandidates))
    ELSE IF out.shape = "no_text" THEN Raise("KeyError")
    ELSE IF out.shape = "text_not_str" THEN Raise("TypeError")
    ELSE InnerTry(json_string_to_parse(out.toks), out.doc)

\* OuterTry without the handler of line 293: only HTTPStatusError is caught.
OuterTry_HttpOnly(out) ==
    LET r == OuterBody(out)
    IN  IF r.raised = "HTTPStatusError"
        THEN Ret(UnknownCommand(MsgHttp(out.status)))
        ELSE r

\* lines 232-295: the outer try with its handlers
OuterTry(out) ==
    LET r == OuterBody(out)
    IN  IF r.raised = "none" THEN r
        ELSE IF r.raised = "HTTPStatusError"
        THEN Ret(UnknownCommand(MsgHttp(out.status)))
        ELSE Ret(UnknownCommand(MsgUnexpected))

\* lines 225-295; the prompt built before (lines 104-223) raises nothing:
\* str.format with a keyword argument accepts any value
call_llm_for_command(key, out) ==
    IF ~Truthy(key) THEN Ret(UnknownCommand(MsgNoKey)) ELSE OuterTry(out)

(***************************************************************************)
(* The Task Store (MongoDBManager).  A stored document is                  *)
(*   [oid, description, start_date, status, created_at];                   *)
(* a field the document does not hold is ABSENT.  An ObjectId is a number, *)
(* its string form is the number's digits.                                 *)
(***************************************************************************)
ABSENT == <<"#absent">>
PyTrue == S("True")
PyFalse == S("False")

\* The ids a well-formed id string can name: those the store may generate
\* and one it never generates.
OidLimit == MaxIds + MaxStoreIds + 1
\* str(ObjectId)
OidStr(oid) == S(ToString(oid))
\* ObjectId(task_id) raises InvalidId on a string that is no id
OidValid(task_id) ==
    IsNone(task_id) \/ \E n \in 1..OidLimit : task_id = OidStr(n)
\* ObjectId(task_id); ObjectId(None) is a fresh id, which names no document
ObjectId(task_id) ==
    IF IsNone(task_id) THEN 0
    ELSE CHOOSE n \in 1..OidLimit : task_id = OidStr(n)

\* self.db after connect() (db.py line 22); connect() sets it or raises
SelfDb == S("task_manager_db")

\* datetime.now(), and datetime.isoformat()
Datetime(t) == <<"#datetime", ToString(t)>>
IsDatetime(v) == Len(v) > 0 /\ v[1] = "#datetime"
isoformat(v) == S(v[2])

StoreRet(r, ts) == [ret |-> r, tasks |-> ts]

add_task(db, ts, oid, clock, description, start_date, status, fault) ==
    IF IsNone(db) THEN StoreRet(NONE, ts)
    ELSE
        LET task_data ==
                [oid |-> oid, description |-> description,
                 created_at |-> Datetime(clock), status |-> status,
                 start_date |-> IF Truthy(start_date) THEN start_date ELSE ABSENT]
        IN  IF fault THEN StoreRet(NONE, ts)
            ELSE StoreRet(OidStr(oid), Append(ts, task_data))

\* ListedTask without the repair of lines 75-78: the stored status is returned.
ListedTask_NoRepair(task_doc) ==
    [_id |-> OidStr(task_doc.oid),
     description |-> task_doc.description,
     start_date |-> task_doc.start_date,
     status |-> task_doc.status,
     created_at |-> IF IsDatetime(task_doc.created_at)
                    THEN isoformat(task_doc.created_at)
                    ELSE task_doc.created_at]

\* lines 70-84: one document of the find() cursor, as returned
ListedTask(task_doc) ==
    LET current_status == IF task_doc.status = ABSENT THEN NONE ELSE task_doc.status
    IN  [_id |-> OidStr(task_doc.oid),
         description |-> task_doc.description,
         start_date |-> task_doc.start_date,
         status |-> IF current_status \notin valid_statuses
                    THEN S("pending") ELSE current_status,
         created_at |-> IF IsDatetime(task_doc.created_at)
                        THEN isoformat(task_doc.created_at)
                        ELSE task_doc.created_at]

get_all_tasks(db, ts, fault) ==
    IF IsNone(db) THEN << >>
    ELSE IF fault THEN << >>
    ELSE [i \in 1..Len(ts) |-> ListedTask(ts[i])]

\* SetFields that writes the three arguments as they come: an argument that is
\* None or empty overwrites the stored field.
SetFields_AllArguments(doc, description, start_date, status) ==
    [doc EXCEPT
        !.description = description,
        !.start_date = start_date,
        !.status = status]

\* the $set of update_fields on one document
SetFields(doc, description, start_date, status) ==
    [doc EXCEPT
        !.description = IF Truthy(description) THEN description ELSE @,
        !.start_date = IF Truthy(start_date) THEN start_date ELSE @,
        !.status = IF Truthy(status) THEN status ELSE @]

\* update_one({"_id": oid}, {"$set": ...}): the collection afterwards
UpdateOne(ts, oid, description, start_date, status) ==
    [i \in 1..Len(ts) |->
        IF ts[i].oid = oid
        THEN SetFields(ts[i], description, start_date, status) ELSE ts[i]]

\* update_task that ignores an invalid status, as its warning says, and applies
\* the other fields.
update_task_IgnoreBadStatus(db, ts, task_id, description, start_date, status, fault) ==
    LET st == IF Truthy(status) /\ status \notin valid_statuses THEN NONE ELSE status
    IN  IF IsNone(db) THEN StoreRet(PyFalse, ts)
        ELSE IF ~(Truthy(description) \/ Truthy(start_date) \/ Truthy(st))
        THEN StoreRet(PyFalse, ts)
        ELSE IF ~OidValid(task_id) THEN StoreRet(PyFalse, ts)
        ELSE IF fault THEN StoreRet(PyFalse, ts)
        ELSE
            LET after == UpdateOne(ts, ObjectId(task_id), description, start_date, st)
                modified_count == Cardinality({i \in 1..Len(ts) : after[i] # ts[i]})
            IN  StoreRet(IF modified_count > 0 THEN PyTrue ELSE PyFalse, after)

\* update_task that returns result.matched_count > 0.
update_task_MatchedCount(db, ts, task_id, description, start_date, status, fault) ==
    IF IsNone(db) THEN StoreRet(PyFalse, ts)
    ELSE IF Truthy(status) /\ status \notin valid_statuses THEN StoreRet(PyFalse, ts)
    ELSE IF ~(Truthy(description) \/ Truthy(start_date) \/ Truthy(status))
    THEN StoreRet(PyFalse, ts)
    ELSE IF ~OidValid(task_id) THEN StoreRet(PyFalse, ts)
    ELSE IF fault THEN StoreRet(PyFalse, ts)
    ELSE
        LET after == UpdateOne(ts, ObjectId(task_id), description, start_date, status)
            matched_count ==
                Cardinality({i \in 1..Len(ts) : ts[i].oid = ObjectId(task_id)})
        IN  StoreRet(IF matched_count > 0 THEN PyTrue ELSE PyFalse, after)

update_task(db, ts, task_id, description, start_date, status, fault) ==
    IF IsNone(db) THEN StoreRet(PyFalse, ts)
    ELSE IF Truthy(status) /\ status \notin valid_statuses THEN StoreRet(PyFalse, ts)
    ELSE IF ~(Truthy(description) \/ Truthy(start_date) \/ Truthy(status))
    THEN StoreRet(PyFalse, ts)
    ELSE IF ~OidValid(task_id) THEN StoreRet(PyFalse, ts)
    ELSE IF fault THEN StoreRet(PyFalse, ts)
    ELSE
        LET after == UpdateOne(ts, ObjectId(task_id), description, start_date, status)
            modified_count == Cardinality({i \in 1..Len(ts) : after[i] # ts[i]})
        IN  StoreRet(IF modified_count > 0 THEN PyTrue ELSE PyFalse, after)

\* delete_one({"_id": oid}): the collection afterwards
DeleteOne(ts, oid) == SelectSeq(ts, LAMBDA d : d.oid # oid)

\* delete_task that returns True whenever delete_one did not raise.
delete_task_Acknowledged(db, ts, task_id, fault) ==
    IF IsNone(db) THEN StoreRet(PyFalse, ts)
    ELSE IF ~OidValid(task_id) THEN StoreRet(PyFalse, ts)
    ELSE IF fault THEN StoreRet(PyFalse, ts)
    ELSE StoreRet(PyTrue, DeleteOne(ts, ObjectId(task_id)))

delete_task(db, ts, task_id, fault) ==
    IF IsNone(db) THEN StoreRet(PyFalse, ts)
    ELSE IF ~OidValid(task_id) THEN StoreRet(PyFalse, ts)
    ELSE IF fault THEN StoreRet(PyFalse, ts)
    ELSE
        LET after == DeleteOne(ts, ObjectId(task_id))
            deleted_count == Len(ts) - Len(after)
        IN  StoreRet(IF deleted_count > 0 THEN PyTrue ELSE PyFalse, after)

(***************************************************************************)
(* process_command: the dispatch on llm_response (lines 321-374).          *)
(* action_result is [status, message, task_id]; task_id is ABSENT when the *)
(* dict has no such key.                                                   *)
(***************************************************************************)
Result(st, m) == [status |-> st, message |-> m, task_id |-> ABSENT]
\* A Task Store call: the method, its arguments and what it returned.
Call(op, task_id, description, start_date, status, ret) ==
    [op |-> op, task_id |-> task_id, description |-> description,
     start_date |-> start_date, status |-> status, ret |-> ret]
NoCall == Call("none", NONE, NONE, NONE, NONE, NONE)
\* What the dispatch leaves: action_result, the collection, the store calls it
\* made (their number, and the call).
Dispatched(res, ts, n, call) == [result |-> res, tasks |-> ts, ops |-> n, call |-> call]

MsgProcessed == S("Comando procesado.")
MsgNoDb == S("Error de base de datos: Conexión no establecida.")
MsgNeedDescription == S("Para crear una tarea, necesito una descripción.")
MsgCreated(description, task_id) ==
    S("Tarea '") \o description \o S("' creada con ID: ") \o Str(task_id)
MsgListing == S("Listando todas las tareas.")
MsgUpdateNeedId == S("Para actualizar una tarea, necesito el ID de la tarea.")
MsgUpdateNeedField ==
    S("Para actualizar, necesito al menos una descripción, fecha o estado.")
MsgUpdated(task_id) == S("Tarea ") \o task_id \o S(" actualizada correctamente.")
MsgNotUpdated(task_id) ==
    S("No se pudo actualizar la tarea ") \o task_id \o S(". ¿El ID es correcto?")
MsgDeleteNeedId == S("Para eliminar una tarea, necesito el ID de la tarea.")
MsgDeleted(task_id) == S("Tarea ") \o task_id \o S(" eliminada correctamente.")
MsgNotDeleted(task_id) ==
    S("No se pudo eliminar la tarea ") \o task_id \o S(". ¿El ID es correcto?")
MsgNotUnderstood == S("No pude entender tu comando. Por favor, sé más específico.")
MsgUnrecognised == S("Acción no reconocida por el sistema.")

\* DispatchCreate without the check of line 327.
DispatchCreate_NoCheck(ts, oid, clock, c, fault) ==
    LET r == add_task(SelfDb, ts, oid, clock, c.description, c.start_date,
                      c.status, fault)
    IN  Dispatched([status |-> "success",
                    message |-> MsgCreated(c.description, r.ret),
                    task_id |-> r.ret],
                   r.tasks, 1,
                   Call("add_task", NONE, c.description, c.start_date, c.status,
                        r.ret))

\* DispatchCreate that answers a None from add_task with an error.
DispatchCreate_ErrorOnNone(ts, oid, clock, c, fault) ==
    IF ~Truthy(c.description)
    THEN Dispatched(Result("error", MsgNeedDescription), ts, 0, NoCall)
    ELSE
        LET r == add_task(SelfDb, ts, oid, clock, c.description, c.start_date,
                          c.status, fault)
            call == Call("add_task", NONE, c.description, c.start_date, c.status,
                         r.ret)
        IN  IF IsNone(r.ret)
            THEN Dispatched(Result("error", MsgNeedDescription), r.tasks, 1, call)
            ELSE Dispatched([status |-> "success",
                             message |-> MsgCreated(c.description, r.ret),
                             task_id |-> r.ret],
                            r.tasks, 1, call)

\* lines 326-336
DispatchCreate(ts, oid, clock, c, fault) ==
    IF ~Truthy(c.description)
    THEN Dispatched(Result("error", MsgNeedDescription), ts, 0, NoCall)
    ELSE
        LET r == add_task(SelfDb, ts, oid, clock, c.description, c.start_date,
                          c.status, fault)
        IN  Dispatched([status |-> "success",
                        message |-> MsgCreated(c.description, r.ret),
                        task_id |-> r.ret],
                       r.tasks, 1,
                       Call("add_task", NONE, c.description, c.start_date, c.status,
                            r.ret))

\* lines 343-358
DispatchUpdate(ts, c, fault) ==
    IF ~Truthy(c.task_id)
    THEN Dispatched(Result("error", MsgUpdateNeedId), ts, 0, NoCall)
    ELSE IF ~(Truthy(c.description) \/ Truthy(c.start_date) \/ Truthy(c.status))
    THEN Dispatched(Result("error", MsgUpdateNeedField), ts, 0, NoCall)
    ELSE
        LET r == update_task(SelfDb, ts, c.task_id, c.description, c.start_date,
                             c.status, fault)
            call == Call("update_task", c.task_id, c.description, c.start_date,
                         c.status, r.ret)
        IN  IF r.ret = PyTrue
            THEN Dispatched(Result("success", MsgUpdated(c.task_id)), r.tasks, 1, call)
            ELSE Dispatched(Result("error", MsgNotUpdated(c.task_id)), r.tasks, 1, call)

\* lines 360-368
DispatchDelete(ts, c, fault) ==
    IF ~Truthy(c.task_id)
    THEN Dispatched(Result("error", MsgDeleteNeedId), ts, 0, NoCall)
    ELSE
        LET r == delete_task(SelfDb, ts, c.task_id, fault)
            call == Call("delete_task", c.task_id, NONE, NONE, NONE, r.ret)
        IN  IF r.ret = PyTrue
            THEN Dispatched(Result("success", MsgDeleted(c.task_id)), r.tasks, 1, call)
            ELSE Dispatched(Result("error", MsgNotDeleted(c.task_id)), r.tasks, 1, call)

\* lines 370-371
DispatchUnknown(ts, c) ==
    Dispatched(Result("info", IF Truthy(c.message) THEN c.message ELSE MsgNotUnderstood),
               ts, 0, NoCall)

\* lines 321-374
Dispatch(dbm, ts, oid, clock, c, fault) ==
    IF ~dbm THEN Dispatched(Result("error", MsgNoDb), ts, 0, NoCall)
    ELSE IF c.action = S("create") THEN DispatchCreate(ts, oid, clock, c, fault)
    ELSE IF c.action = S("read") THEN Dispatched(Result("success", MsgListing), ts, 0, NoCall)
    ELSE IF c.action = S("update") THEN DispatchUpdate(ts, c, fault)
    ELSE IF c.action = S("delete") THEN DispatchDelete(ts, c, fault)
    ELSE IF c.action = S("unknown") THEN DispatchUnknown(ts, c)
    ELSE Dispatched(Result("error", MsgUnrecognised), ts, 0, NoCall)

(***************************************************************************)
(* Inputs.                                                                 *)
(***************************************************************************)
Outcome(net, status, body, shape, toks, doc) ==
    [net |-> net, status |-> status, body |-> body, shape |-> shape,
     toks |-> toks, doc |-> doc]
Doc(t, items) == [t |-> t, items |-> items]
TextOutcome(toks, doc) == Outcome("ok", 200, "json", "text", toks, doc)
ObjectOutcome(items) == TextOutcome(<<JsonTok>>, Doc("object", items))
NoOutcome == Outcome("none", 0, "none", "none", << >>, Doc("null", << >>))

\* The outcomes in which no text reaches the parser.
EnvelopeOutcomes ==
    {Outcome("error", 0, "none", "none", << >>, Doc("null", << >>))}
    \cup {Outcome("ok", st, "json", "text", <<JsonTok>>, Doc("object", << >>)) :
            st \in {404, 500}}
    \cup {Outcome("ok", 200, "not_json", "none", << >>, Doc("null", << >>))}
    \cup {Outcome("ok", 200, "json", sh, << >>, Doc("null", << >>)) :
            sh \in {"not_dict", "no_candidates", "empty_candidates", "no_content",
                    "no_parts", "empty_parts", "no_text", "text_not_str"}}

\* Generated texts around one JSON document.
Texts ==
    {<<JsonTok>>, << >>, <<"prose">>, <<" ", JsonTok, "\n">>, <<"prose", JsonTok>>,
     <<"prose", FenceOpen, "\n", JsonTok, "\n", FenceClose, "prose">>,
     <<FenceOpen, JsonTok>>, <<FenceOpen, FenceClose>>,
     <<FenceOpen, "prose", FenceClose>>}
ActionOnly == <<[k |-> K_action, v |-> S("read")]>>
TextOutcomes ==
    {TextOutcome(toks, Doc("object", ActionOnly)) : toks \in Texts}
    \cup {TextOutcome(<<JsonTok>>, Doc(t, << >>)) :
            t \in {"array", "string", "number", "null"}}

\* The JSON objects of the interpreter runs: up to MaxKeys items, keys distinct.
K_action_dirty == <<" ", "a", "c", "t", "i", "o", "n", ":">>
RawKeys == {K_action, K_action_dirty, K_task_id, K_description, K_status, K_message}
RawValues ==
    {S("create"), S("unknown"), S("fly"), S("pending"), << >>, NONE, JNum, JList}
RawItems == [k : RawKeys, v : RawValues]
RECURSIVE ObjectsUpTo(_)
ObjectsUpTo(n) ==
    IF n = 0 THEN {<< >>}
    ELSE LET shorter == ObjectsUpTo(n - 1)
         IN  shorter \cup
             {Append(d, it) : d \in {x \in shorter : Len(x) = n - 1},
                              it \in RawItems}
DistinctKeys(d) == \A i, j \in 1..Len(d) : d[i].k = d[j].k => i = j
RawObjects == {d \in ObjectsUpTo(MaxKeys) : DistinctKeys(d)}

InterpOutcomes ==
    EnvelopeOutcomes \cup TextOutcomes \cup {ObjectOutcome(d) : d \in RawObjects}

\* The JSON objects of the request runs: one value (or no key) per field.
FieldItem(k, v) == IF v = ABSENT THEN << >> ELSE <<[k |-> k, v |-> v]>>
FieldsObject(a, t, d, sd, st, m) ==
    FieldItem(K_action, a) \o FieldItem(K_task_id, t) \o FieldItem(K_description, d)
    \o FieldItem(K_start_date, sd) \o FieldItem(K_status, st) \o FieldItem(K_message, m)
TaskIdValues(maxIds) ==
    {ABSENT, << >>, S("bad")} \cup {OidStr(n) : n \in 1..(maxIds + 1)}
DescriptionValues == {ABSENT, << >>, S("d1")}
StartDateValues == {ABSENT, S("s1")}
StatusValues == {ABSENT, S("pending"), S("completed")}
MessageValues == {ABSENT, << >>, S("m1")}
CommandObjects ==
    {FieldsObject(a, t, d, sd, st, m) :
        a \in Actions, t \in TaskIdValues(MaxIds), d \in DescriptionValues,
        sd \in StartDateValues, st \in StatusValues, m \in MessageValues}
RequestOutcomes ==
    {ObjectOutcome(d) : d \in CommandObjects}
    \cup {ObjectOutcome(FieldsObject(S("update"), OidStr(1), ABSENT, ABSENT, S("weird"), ABSENT)),
          ObjectOutcome(FieldsObject(ABSENT, ABSENT, S("d1"), ABSENT, ABSENT, ABSENT)),
          Outcome("error", 0, "none", "none", << >>, Doc("null", << >>)),
          Outcome("ok", 500, "json", "text", <<JsonTok>>, Doc("object", << >>)),
          Outcome("ok", 200, "json", "no_candidates", << >>, Doc("null", << >>)),
          TextOutcome(<<"prose">>, Doc("null", << >>))}

\* The body of a POST /command request: the JSON it holds, and its "command".
Body(json, command) == [json |-> json, command |-> command]
Bodies ==
    {Body("invalid", NONE), Body("array", NONE), Body("object", NONE),
     Body("object", << >>), Body("object", S("hola"))}

Reqs == {1}
ApiKeys == {<< >>, S("key")}
\* A store call may raise (a persistence error, a closed or unreachable client).
Faults == BOOLEAN

(***************************************************************************)
(* State.                                                                  *)
(***************************************************************************)
NoResult == Result("none", << >>)

InitRequests ==
    /\ pc = [r \in Reqs |-> "idle"]
    /\ cmd = [r \in Reqs |-> NoCommand]
    /\ result = [r \in Reqs |-> NoResult]
    /\ llmCalls = [r \in Reqs |-> 0]
    /\ storeOps = [r \in Reqs |-> 0]

\* The process after start-up (main.py lines 86-95): the key is read from the
\* environment, MongoDBManager() connected or failed; the collection is empty.
Init ==
    /\ api_key \in ApiKeys
    /\ db_manager \in BOOLEAN
    /\ closed = FALSE
    /\ tasks = << >>
    /\ nextOid = 1
    /\ now = 1
    /\ InitRequests
    /\ llm_in = NoOutcome
    /\ last = NoCall
    /\ reads = << >>

(***************************************************************************)
(* POST /command (process_command).  The coroutine runs without            *)
(* interruption up to the await of client.post, and from the LLM's answer  *)
(* to its return: the store calls are synchronous.                         *)
(***************************************************************************)
\* add_task would be called: the dispatch reaches line 330
CallsAddTask(c) == db_manager /\ c.action = S("create") /\ Truthy(c.description)

\* lines 318-376, from the return of call_llm_for_command on
Complete(r, called, fault, maxIds) ==
    IF called.raised # "none"
    THEN /\ pc' = [pc EXCEPT ![r] = "raised"]
         /\ UNCHANGED <<cmd, result, tasks, nextOid, now, storeOps, last>>
    ELSE
        LET c == called.value
            d == Dispatch(db_manager, tasks, nextOid, now, c, fault)
            inserted == Len(d.tasks) > Len(tasks)
        IN  /\ CallsAddTask(c) => nextOid <= maxIds
            /\ pc' = [pc EXCEPT ![r] = "done"]
            /\ cmd' = [cmd EXCEPT ![r] = c]
            /\ result' = [result EXCEPT ![r] = d.result]
            /\ storeOps' = [storeOps EXCEPT ![r] = @ + d.ops]
            /\ last' = d.call
            /\ tasks' = d.tasks
            /\ nextOid' = IF inserted THEN nextOid + 1 ELSE nextOid
            /\ now' = IF inserted THEN now + 1 ELSE now

\* lines 311-318 and call_llm_for_command up to line 234
Post(r, body) ==
    /\ pc[r] = "idle"
    /\ ~closed
    /\ UNCHANGED <<api_key, db_manager, closed, llm_in, reads>>
    /\ IF body.json # "object"
       THEN \* request.json() raises, or data has no get
            /\ pc' = [pc EXCEPT ![r] = "raised"]
            /\ UNCHANGED <<cmd, result, tasks, nextOid, now, llmCalls, storeOps, last>>
       ELSE IF ~Truthy(body.command)
       THEN /\ pc' = [pc EXCEPT ![r] = "http400"]
            /\ UNCHANGED <<cmd, result, tasks, nextOid, now, llmCalls, storeOps, last>>
       ELSE IF ~Truthy(api_key)
       THEN /\ Complete(r, call_llm_for_command(api_key, NoOutcome), FALSE, MaxIds)
            /\ UNCHANGED llmCalls
       ELSE /\ pc' = [pc EXCEPT ![r] = "awaiting_llm"]
            /\ llmCalls' = [llmCalls EXCEPT ![r] = @ + 1]
            /\ UNCHANGED <<cmd, result, tasks, nextOid, now, storeOps, last>>

\* LLMReturns that posts again when the transport failed.
LLMReturns_Retry(r, out, fault) ==
    /\ pc[r] = "awaiting_llm"
    /\ IF out.net = "error"
       THEN /\ llmCalls' = [llmCalls EXCEPT ![r] = @ + 1]
            /\ UNCHANGED <<pc, cmd, result, tasks, nextOid, now, storeOps, last>>
       ELSE /\ Complete(r, call_llm_for_command(api_key, out), fault, MaxIds)
            /\ UNCHANGED llmCalls
    /\ UNCHANGED <<api_key, db_manager, closed, llm_in, reads>>

\* lines 234-295 and 318-376: the LLM call ends with outcome out
LLMReturns(r, out, fault) ==
    /\ pc[r] = "awaiting_llm"
    /\ Complete(r, call_llm_for_command(api_key, out), fault, MaxIds)
    /\ UNCHANGED <<api_key, db_manager, closed, llmCalls, llm_in, reads>>

\* the response (or the error) has gone to the client; the slot takes a new request
Respond(r) ==
    /\ pc[r] \in {"done", "http400", "raised"}
    /\ pc' = [pc EXCEPT ![r] = "idle"]
    /\ cmd' = [cmd EXCEPT ![r] = NoCommand]
    /\ result' = [result EXCEPT ![r] = NoResult]
    /\ llmCalls' = [llmCalls EXCEPT ![r] = 0]
    /\ storeOps' = [storeOps EXCEPT ![r] = 0]
    /\ last' = NoCall
    /\ UNCHANGED <<api_key, db_manager, closed, tasks, nextOid, now, llm_in, reads>>

\* shutdown_event (lines 391-395): runs once no request is in flight
Shutdown ==
    /\ ~closed
    /\ \A r \in Reqs : pc[r] = "idle"
    /\ db_manager
    /\ closed' = TRUE
    /\ UNCHANGED <<api_key, db_manager, tasks, nextOid, now, pc, cmd, result,
                   llmCalls, storeOps, llm_in, last, reads>>

Next ==
    \/ \E r \in Reqs, body \in Bodies : Post(r, body)
    \/ \E r \in Reqs, out \in RequestOutcomes, fault \in Faults : LLMReturns(r, out, fault)
    \/ \E r \in Reqs : Respond(r)
    \/ Shutdown

Spec == Init /\ [][Next]_vars

(***************************************************************************)
(* The interpreter alone: one call of call_llm_for_command on each         *)
(* outcome of the LLM call.                                                *)
(***************************************************************************)
InitInterp ==
    /\ api_key \in ApiKeys
    /\ db_manager = TRUE
    /\ closed = FALSE
    /\ tasks = << >>
    /\ nextOid = 1
    /\ now = 1
    /\ InitRequests
    /\ llm_in \in InterpOutcomes
    /\ last = NoCall
    /\ reads = << >>

Interpret(r) ==
    /\ pc[r] = "idle"
    /\ LET called == call_llm_for_command(api_key, llm_in)
       IN  /\ pc' = [pc EXCEPT ![r] = IF called.raised = "none" THEN "returned"
                                      ELSE "raised"]
           /\ cmd' = [cmd EXCEPT ![r] = called.value]
    /\ UNCHANGED <<api_key, db_manager, closed, tasks, nextOid, now, result,
                   llmCalls, storeOps, llm_in, last, reads>>

NextInterp == \E r \in Reqs : Interpret(r)

SpecInterp == InitInterp /\ [][NextInterp]_vars

(***************************************************************************)
(* The Task Store alone: direct calls of the MongoDBManager methods on a   *)
(* connected manager.  The collection may hold a document written by       *)
(* another program, whose status is no valid status or is missing.         *)
(***************************************************************************)
\* Its id is one this store never generates.
LegacyTask(status) ==
    [oid |-> OidLimit, description |-> S("d1"), start_date |-> ABSENT, status |-> status,
     created_at |-> Datetime(0)]
LegacyStatuses == {S("weird"), ABSENT}

InitStore ==
    /\ api_key = S("key")
    /\ db_manager = TRUE
    /\ closed = FALSE
    /\ tasks \in {<< >>} \cup {<<LegacyTask(st)>> : st \in LegacyStatuses}
    /\ nextOid = 1
    /\ now = 1
    /\ InitRequests
    /\ llm_in = NoOutcome
    /\ last = NoCall
    /\ reads = << >>

\* one return of get_all_tasks: whether the cursor raised, and the list returned
\* and whether it is the first such call or follows another (nth is 1 or 2)
Read(fault, listing, nth) == [fault |-> fault, listing |-> listing, nth |-> nth]

StoreFrame == UNCHANGED <<api_key, db_manager, closed, pc, cmd, result, llmCalls,
                          storeOps, llm_in>>
\* one caller at a time: no call is open, no dispatch is under way
NoCaller == last.op = "none" /\ \A r \in Reqs : pc[r] = "idle"

AddTask(description, start_date, status, fault) ==
    /\ NoCaller
    /\ nextOid <= MaxStoreIds
    /\ LET r == add_task(SelfDb, tasks, nextOid, now, description, start_date,
                         status, fault)
           inserted == Len(r.tasks) > Len(tasks)
       IN  /\ tasks' = r.tasks
           /\ nextOid' = IF inserted THEN nextOid + 1 ELSE nextOid
           /\ now' = IF inserted THEN now + 1 ELSE now
           /\ last' = Call("add_task", NONE, description, start_date, status, r.ret)
    /\ reads' = << >>
    /\ StoreFrame

GetAllTasks(fault) ==
    /\ NoCaller
    /\ LET listing == get_all_tasks(SelfDb, tasks, fault)
       IN  reads' = <<Read(fault, listing, IF reads = << >> THEN 1 ELSE 2)>>
    /\ last' = Call("get_all_tasks", NONE, NONE, NONE, NONE, NONE)
    /\ UNCHANGED <<tasks, nextOid, now>>
    /\ StoreFrame

UpdateTask(task_id, description, start_date, status, fault) ==
    /\ NoCaller
    /\ LET r == update_task(SelfDb, tasks, task_id, description, start_date,
                            status, fault)
       IN  /\ tasks' = r.tasks
           /\ last' = Call("update_task", task_id, description, start_date, status,
                           r.ret)
    /\ reads' = << >>
    /\ UNCHANGED <<nextOid, now>>
    /\ StoreFrame

DeleteTask(task_id, fault) ==
    /\ NoCaller
    /\ LET r == delete_task(SelfDb, tasks, task_id, fault)
       IN  /\ tasks' = r.tasks
           /\ last' = Call("delete_task", task_id, NONE, NONE, NONE, r.ret)
    /\ reads' = << >>
    /\ UNCHANGED <<nextOid, now>>
    /\ StoreFrame

\* the call has returned to its caller
Return ==
    /\ last.op # "none"
    /\ \A r \in Reqs : pc[r] = "idle"
    /\ last' = NoCall
    /\ UNCHANGED <<tasks, nextOid, now, reads>>
    /\ StoreFrame

\* process_command from line 321 on, llm_response being the update Command c
ProcessCommand(r, c, fault) ==
    /\ NoCaller
    /\ Complete(r, Ret(c), fault, MaxStoreIds)
    /\ reads' = << >>
    /\ UNCHANGED <<api_key, db_manager, closed, llmCalls, llm_in>>

StoreTaskIds == {NONE, S("bad"), OidStr(OidLimit)} \cup {OidStr(n) : n \in 1..MaxStoreIds}
StoreDescriptions == {NONE, << >>, S("d1")}
StoreStartDates == {NONE, S("s1")}
StoreStatuses == {NONE, << >>, S("completed"), S("weird")}

\* The update Commands the interpreter can return.
UpdateCommands ==
    {LLMCommand(S("update"), t, d, sd, st, NONE) :
        t \in {<< >>, S("bad"), OidStr(1), OidStr(OidLimit)}, d \in StoreDescriptions,
        sd \in StoreStartDates, st \in {NONE, S("completed")}}

NextStore ==
    \/ \E sd \in StoreStartDates, st \in {NONE, S("pending")}, fault \in Faults :
           AddTask(S("d1"), sd, st, fault)
    \/ \E fault \in Faults : GetAllTasks(fault)
    \/ \E t \in StoreTaskIds, d \in StoreDescriptions, sd \in StoreStartDates,
          st \in StoreStatuses, fault \in Faults : UpdateTask(t, d, sd, st, fault)
    \/ \E t \in StoreTaskIds, fault \in Faults : DeleteTask(t, fault)
    \/ Return
    \/ \E r \in Reqs, c \in UpdateCommands, fault \in Faults : ProcessCommand(r, c, fault)
    \/ \E r \in Reqs : Respond(r)

SpecStore == InitStore /\ [][NextStore]_vars

(***************************************************************************)
(* Concurrent requests.  process_command is a coroutine: each request runs *)
(* up to its await of client.post, other requests run while it waits, and  *)
(* from the LLM's answer it runs to its return without interruption (the   *)
(* pymongo calls are synchronous).  Each request slot serves one request,  *)
(* whose Command and Result stay in cmd and result.  The collection holds  *)
(* one task from an earlier run of the process.                            *)
(***************************************************************************)
\* Requests in flight together.
MaxReqs == 3
ConcReqs == 1..MaxReqs

\* The task stored before start-up, and its id as the client writes it.
ExistingTask == LegacyTask(S("pending"))
ExistingId == OidStr(ExistingTask.oid)

InitConc ==
    /\ api_key = S("key")
    /\ db_manager = TRUE
    /\ closed = FALSE
    /\ tasks = <<ExistingTask>>
    /\ nextOid = 1
    /\ now = 1
    /\ pc = [r \in ConcReqs |-> "idle"]
    /\ cmd = [r \in ConcReqs |-> NoCommand]
    /\ result = [r \in ConcReqs |-> NoResult]
    /\ llmCalls = [r \in ConcReqs |-> 0]
    /\ storeOps = [r \in ConcReqs |-> 0]
    /\ llm_in = NoOutcome
    /\ last = NoCall
    /\ reads = << >>

\* What the LLM answers in these runs: deletes and updates of the stored
\* task and of the first task created, and a create.
ConcOutcomes ==
    {ObjectOutcome(FieldsObject(S("delete"), t, ABSENT, ABSENT, ABSENT, ABSENT)) :
        t \in {ExistingId, OidStr(1)}}
    \cup {ObjectOutcome(FieldsObject(S("update"), t, ABSENT, ABSENT, S("completed"), ABSENT)) :
            t \in {ExistingId, OidStr(1)}}
    \cup {ObjectOutcome(FieldsObject(S("create"), ABSENT, S("d1"), ABSENT, S("pending"), ABSENT))}

NextConc ==
    \/ \E r \in ConcReqs : Post(r, Body("object", S("hola")))
    \/ \E r \in ConcReqs, out \in ConcOutcomes, fault \in Faults : LLMReturns(r, out, fault)

SpecConc == InitConc /\ [][NextConc]_vars

(***************************************************************************)
(* Properties.                                                             *)
(***************************************************************************)
\* The value a key has in the sanitized object: that of the last item whose
\* key, without its non-word characters, is the key; NONE when there is none.
SanitizedValue(items, key) ==
    LET idx == {i \in 1..Len(items) : SelectSeq(items[i].k, IsWordChar) = key}
    IN  IF idx = {} THEN NONE
        ELSE items[CHOOSE i \in idx : \A j \in idx : j <= i].v

\* The text holds exactly one JSON document, and it is an object.
ObjectParsed ==
    /\ Truthy(api_key)
    /\ llm_in.net = "ok" /\ llm_in.status \in 200..299 /\ llm_in.body = "json"
    /\ llm_in.shape = "text"
    /\ JsonLoadsOk(json_string_to_parse(llm_in.toks))
    /\ llm_in.doc.t = "object"

\* The object does not fit the Command schema.
ObjectFails(items) ==
    \/ SanitizedValue(items, K_action) \notin Actions
    \/ \E k \in {K_task_id, K_description, K_start_date, K_message} :
           IsList(SanitizedValue(items, k))
    \/ SanitizedValue(items, K_status) \notin valid_statuses \cup {NONE}

\* A failure outcome of the LLM call.
FailureOutcome == ~ObjectParsed \/ ObjectFails(llm_in.doc.items)

\* C1: call_llm_for_command is total: on every outcome of the LLM call it
\* returns a Command and raises nothing; the action is one of the five, the
\* status is absent or one of the four, and every failure outcome yields
\* action = unknown with a non-empty message.
C1_InterpreterTotal ==
    \A r \in Reqs :
        /\ pc[r] # "raised"
        /\ pc[r] = "returned" =>
            /\ cmd[r].action \in Actions
            /\ cmd[r].status \in valid_statuses \cup {NONE}
            /\ FailureOutcome =>
                /\ cmd[r].action = S("unknown")
                /\ IsStr(cmd[r].message) /\ Len(cmd[r].message) > 0

\* An object with a valid action and an out-of-enum status came back as unknown.
C1_Witness ==
    /\ pc[1] = "returned"
    /\ ObjectParsed
    /\ SanitizedValue(llm_in.doc.items, K_action) = S("create")
    /\ SanitizedValue(llm_in.doc.items, K_status) = S("fly")
    /\ cmd[1].action = S("unknown")
    /\ Len(cmd[1].message) > 0

\* C6: for every parsed JSON object, after key sanitization: with no non-null
\* action the interpreter returns unknown; with an action outside the five it
\* returns unknown with a message that contains the invalid value; the returned
\* Command depends on nothing else in the object.
C6_ActionGate ==
    \A r \in Reqs :
        (pc[r] = "returned" /\ ObjectParsed) =>
            LET a == SanitizedValue(llm_in.doc.items, K_action)
            IN  /\ IsNone(a) =>
                    cmd[r] = LLMCommand(S("unknown"), NONE, NONE, NONE, NONE, MsgNoAction)
                /\ (~IsNone(a) /\ a \notin Actions) =>
                    /\ cmd[r].action = S("unknown")
                    /\ Contains(cmd[r].message, Str(a))
                    /\ cmd[r] = LLMCommand(S("unknown"), NONE, NONE, NONE, NONE,
                                           MsgBadAction(a))

\* An object with the action "fly" and a valid status came back as unknown.
C6_Witness ==
    /\ pc[1] = "returned"
    /\ ObjectParsed
    /\ SanitizedValue(llm_in.doc.items, K_action) = S("fly")
    /\ SanitizedValue(llm_in.doc.items, K_status) = S("pending")
    /\ cmd[1].action = S("unknown")
    /\ Contains(cmd[1].message, S("fly"))

\* A request ends its dispatch in this step.
Dispatches(r) == pc[r] # "done" /\ pc'[r] = "done"

\* C2: whenever the interpreter returns action = unknown, process_command
\* returns status info with the Command's message (the generic text when the
\* message is absent or empty), also when db_manager is None.
C2_UnknownIsInfo ==
    \A r \in Reqs :
        (pc[r] = "done" /\ cmd[r].action = S("unknown")) =>
            /\ result[r].status = "info"
            /\ result[r].message =
                   IF IsNone(cmd[r].message) \/ cmd[r].message = << >>
                   THEN S("No pude entender tu comando. Por favor, sé más específico.")
                   ELSE cmd[r].message

\* The per-action preconditions of process_command reject the Command.
Rejected(c) ==
    \/ c.action = S("create") /\ ~Truthy(c.description)
    \/ c.action \in {S("update"), S("delete")} /\ ~Truthy(c.task_id)
    \/ /\ c.action = S("update")
       /\ ~Truthy(c.description) /\ ~Truthy(c.start_date) /\ ~Truthy(c.status)

\* C3: a Command rejected on a per-action precondition gets status error, no
\* Task Store operation is invoked for it and the stored tasks are unchanged.
C3_RejectedNoStoreCall ==
    [][\A r \in Reqs :
          (Dispatches(r) /\ Rejected(cmd'[r])) =>
              /\ result'[r].status = "error"
              /\ storeOps'[r] = storeOps[r]
              /\ last'.op = "none"
              /\ tasks' = tasks]_vars

\* An update naming a stored task, with no field to change, was rejected.
C3_Witness ==
    /\ pc[1] = "done"
    /\ db_manager
    /\ cmd[1].action = S("update")
    /\ \E i \in 1..Len(tasks) : OidStr(tasks[i].oid) = cmd[1].task_id
    /\ Rejected(cmd[1])
    /\ result[1].status = "error"
    /\ storeOps[1] = 0

\* A call of update_task is made in this step.
UpdateCalled == last.op = "none" /\ last'.op = "update_task"

\* C4: update_task with a non-empty status outside the four values returns
\* False and leaves every stored record unchanged, whatever the other arguments.
C4_BadStatusRejectsAll ==
    [][(UpdateCalled /\ Truthy(last'.status) /\ last'.status \notin valid_statuses) =>
          /\ last'.ret = PyFalse
          /\ tasks' = tasks]_vars

\* Rejected although the id exists and a new start_date came with the status.
C4_Witness ==
    /\ last.op = "update_task"
    /\ last.status = S("weird")
    /\ last.start_date = S("s1")
    /\ last.description = S("d1")
    /\ \E i \in 1..Len(tasks) :
           OidStr(tasks[i].oid) = last.task_id /\ tasks[i].start_date = ABSENT
    /\ last.ret = PyFalse

\* A call of get_all_tasks is made in this step.
GetCalled == last.op = "none" /\ last'.op = "get_all_tasks"
\* The list returned shows each stored record, its status repaired.
ShowsStore(listing, ts) ==
    /\ Len(listing) = Len(ts)
    /\ \A i \in 1..Len(ts) :
           /\ listing[i]._id = OidStr(ts[i].oid)
           /\ listing[i].status =
                  IF ts[i].status \in valid_statuses THEN ts[i].status
                  ELSE S("pending")
ReadOnlyView ==
    /\ tasks' = tasks
    /\ \A i \in 1..Len(reads'[1].listing) :
           reads'[1].listing[i].status \in valid_statuses
    /\ ~reads'[1].fault => ShowsStore(reads'[1].listing, tasks)

\* C5 as stated: get_all_tasks is a read-only view with valid statuses, and
\* two consecutive calls return the same sequence.
C5_ConsecutiveReadsAgree ==
    [][GetCalled =>
          /\ ReadOnlyView
          /\ reads # << >> => reads'[1].listing = reads[1].listing]_vars

\* C5 as amended: two consecutive calls return the same sequence when the
\* store raised in both or in neither (a call in which it raises returns []).
C5_ReadOnlyView ==
    [][GetCalled =>
          /\ ReadOnlyView
          /\ (reads # << >> /\ reads'[1].fault = reads[1].fault) =>
                 reads'[1].listing = reads[1].listing]_vars

\* A second consecutive call showed a stored invalid status as pending.
C5_Witness ==
    /\ last.op = "get_all_tasks"
    /\ reads # << >>
    /\ reads[1].nth = 2
    /\ ~reads[1].fault
    /\ \E i \in 1..Len(tasks) :
           /\ tasks[i].status \notin valid_statuses
           /\ reads[1].listing[i].status = S("pending")

\* C7: no fault escapes process_command: every request ends in a response
\* with an action_result of status success, error or info, or in the 400.
C7_NoFaultEscapes ==
    \A r \in Reqs :
        /\ pc[r] # "raised"
        /\ pc[r] = "done" => result[r].status \in {"success", "error", "info"}

\* C8: a create Command without status stores status pending, and every
\* record the create path writes has a status among the four.
C8_CreateStoresValidStatus ==
    [][\A r \in Reqs :
          (Dispatches(r) /\ Len(tasks') > Len(tasks)) =>
              LET doc == tasks'[Len(tasks')]
              IN  /\ doc.status \in valid_statuses
                  /\ IsNone(cmd'[r].status) => doc.status = S("pending")]_vars

\* The stored record a task id names, as a set (empty or one record).
Stored(ts, task_id) == {ts[i] : i \in {j \in 1..Len(ts) : OidStr(ts[j].oid) = task_id}}

\* C9: update_task returns True only if a record with the id existed and one
\* of its fields changed value; otherwise it returns False and the store is
\* unchanged, and process_command answers False with an error naming the id.
C9_UpdateTrueOnlyIfChanged ==
    [][UpdateCalled =>
          LET c == last'
              old == Stored(tasks, c.task_id)
              new == Stored(tasks', c.task_id)
          IN  /\ c.ret \in {PyTrue, PyFalse}
              /\ c.ret = PyTrue =>
                  /\ old # {} /\ new # old
                  /\ \E d \in old :
                         \/ Truthy(c.description) /\ d.description # c.description
                         \/ Truthy(c.start_date) /\ d.start_date # c.start_date
                         \/ Truthy(c.status) /\ d.status # c.status
              /\ c.ret = PyFalse => tasks' = tasks
              /\ \A r \in Reqs :
                     Dispatches(r) =>
                         /\ c.ret = PyTrue => result'[r].status = "success"
                         /\ c.ret = PyFalse =>
                             /\ result'[r].status = "error"
                             /\ Len(cmd'[r].task_id) > 0
                             /\ Contains(result'[r].message, cmd'[r].task_id)]_vars

\* process_command answered an update that supplied the stored description.
C9_Witness ==
    /\ pc[1] = "done"
    /\ last.op = "update_task"
    /\ last.ret = PyFalse
    /\ last.description = S("d1") /\ ~Truthy(last.start_date) /\ ~Truthy(last.status)
    /\ \E d \in Stored(tasks, last.task_id) : d.description = S("d1")
    /\ result[1].status = "error"

\* C10: when a create Command has a non-empty description and add_task
\* returns None, the Result has status success, a null task_id and a message
\* that embeds the null id, and no task has been added.
C10_CreateFailureReportsSuccess ==
    [][\A r \in Reqs :
          (/\ Dispatches(r)
           /\ cmd'[r].action = S("create") /\ Truthy(cmd'[r].description)
           /\ last'.op = "add_task" /\ IsNone(last'.ret)) =>
              /\ result'[r].status = "success"
              /\ IsNone(result'[r].task_id)
              /\ Contains(result'[r].message, S("None"))
              /\ tasks' = tasks]_vars

\* add_task returned None and the request was answered with success.
C10_Witness ==
    /\ pc[1] = "done"
    /\ cmd[1].action = S("create")
    /\ last.op = "add_task" /\ IsNone(last.ret)
    /\ result[1].status = "success"
    /\ IsNone(result[1].task_id)

\* The positions of the records a task id names.
Named(ts, task_id) == {i \in 1..Len(ts) : OidStr(ts[i].oid) = task_id}
\* The ids stored.
StoredIds(ts) == {ts[i].oid : i \in 1..Len(ts)}

\* C11: an update_task that returns True changes only the supplied non-empty
\* fields (description, start_date, status) of the one record with the given
\* id: that record's id, created_at and unsupplied fields keep their values,
\* every other record is unchanged, and the set of stored ids is unchanged.
C11_UpdateChangesOnlySupplied ==
    [][(UpdateCalled /\ last'.ret = PyTrue) =>
          LET c == last'
          IN  /\ Cardinality(Named(tasks, c.task_id)) = 1
              /\ Len(tasks') = Len(tasks)
              /\ StoredIds(tasks') = StoredIds(tasks)
              /\ \A i \in 1..Len(tasks) :
                     IF i \in Named(tasks, c.task_id)
                     THEN /\ tasks'[i].oid = tasks[i].oid
                          /\ tasks'[i].created_at = tasks[i].created_at
                          /\ tasks'[i].description =
                                 IF Truthy(c.description) THEN c.description
                                 ELSE tasks[i].description
                          /\ tasks'[i].start_date =
                                 IF Truthy(c.start_date) THEN c.start_date
                                 ELSE tasks[i].start_date
                          /\ tasks'[i].status =
                                 IF Truthy(c.status) THEN c.status
                                 ELSE tasks[i].status
                     ELSE tasks'[i] = tasks[i]]_vars

\* Of two stored records one took the supplied status; its start_date, which
\* was not supplied, is still missing, and the other record has its status.
C11_Witness ==
    /\ last.op = "update_task"
    /\ last.ret = PyTrue
    /\ last.status = S("completed")
    /\ ~Truthy(last.description) /\ ~Truthy(last.start_date)
    /\ Len(tasks) = 2
    /\ \E i, j \in 1..Len(tasks) :
           /\ i # j
           /\ OidStr(tasks[i].oid) = last.task_id
           /\ tasks[i].status = S("completed")
           /\ tasks[i].start_date = ABSENT
           /\ tasks[i].description = S("d1")
           /\ tasks[j].status # S("completed")

\* C12: within one POST /command request at most one LLM call and at most one
\* Task Store operation are made; the store operation is made only in the step
\* in which the interpreter returns its Command, after the one LLM call; no
\* call follows a failed LLM call or a failed store operation; and with the
\* API key missing no LLM call is made.
C12_OneCallEachInOrder ==
    [][\A r \in Reqs :
          /\ llmCalls'[r] <= 1
          /\ storeOps'[r] <= 1
          /\ ~Truthy(api_key) => llmCalls'[r] = 0
          /\ llmCalls'[r] > llmCalls[r] =>
                 /\ pc[r] = "idle" /\ pc'[r] = "awaiting_llm"
                 /\ storeOps[r] = 0 /\ storeOps'[r] = 0
          /\ storeOps'[r] > storeOps[r] =>
                 /\ pc[r] = "awaiting_llm" /\ pc'[r] = "done"
                 /\ llmCalls[r] = 1 /\ llmCalls'[r] = 1
                 /\ cmd'[r].action \in {S("create"), S("update"), S("delete")}
                 /\ last'.op \in {"add_task", "update_task", "delete_task"}
          /\ pc[r] \in {"done", "raised", "http400"} =>
                 /\ llmCalls'[r] <= llmCalls[r]
                 /\ storeOps'[r] <= storeOps[r]]_vars

\* A request made its LLM call, then one delete_task, which failed; the
\* request ended there with an error.
C12_Witness ==
    /\ pc[1] = "done"
    /\ llmCalls[1] = 1
    /\ storeOps[1] = 1
    /\ cmd[1].action = S("delete")
    /\ last.op = "delete_task" /\ last.ret = PyFalse
    /\ result[1].status = "error"

\* The requests answered so far whose Command is the delete of id, and those
\* of them that got a success Result.
DeletesOf(id) ==
    {r \in ConcReqs : pc[r] = "done" /\ cmd[r].action = S("delete")
                      /\ cmd[r].task_id = id}
SucceededOn(id) == {r \in DeletesOf(id) : result[r].status = "success"}
\* Every request has been answered.
AllAnswered == \A r \in ConcReqs : pc[r] = "done"
\* The ids that have named a stored record up to now.
EverStored == {ExistingId} \cup {OidStr(n) : n \in 1..(nextOid - 1)}
IsStored(ts, id) == Stored(ts, id) # {}
\* The ids the Commands name.
NamedIds == {cmd[r].task_id : r \in ConcReqs}
\* The other deletes of id got an error Result that names it.
OthersGetError(id) ==
    \A r \in DeletesOf(id) \ SucceededOn(id) :
        /\ result[r].status = "error"
        /\ Contains(result[r].message, id)

\* delete_task returns True exactly when its call removed the record; a
\* False leaves the store as it was.
DeleteTrueOnlyIfRemoved ==
    \A r \in ConcReqs :
        (Dispatches(r) /\ last'.op = "delete_task") =>
            /\ last'.ret = PyTrue <=>
                   (IsStored(tasks, last'.task_id) /\ ~IsStored(tasks', last'.task_id))
            /\ last'.ret = PyFalse => tasks' = tasks
            /\ result'[r].status = "success" <=> last'.ret = PyTrue
\* An update or delete of an id that names no record fails.
LaterCallsFail ==
    \A r \in ConcReqs :
        (/\ Dispatches(r)
         /\ last'.op \in {"update_task", "delete_task"}
         /\ ~IsStored(tasks, last'.task_id)) =>
            /\ last'.ret = PyFalse
            /\ result'[r].status = "error"
            /\ tasks' = tasks
\* A removed record does not come back.
NeverReappears ==
    \A id \in EverStored : ~IsStored(tasks, id) => ~IsStored(tasks', id)

\* Of the answered deletes of the task stored at start-up exactly one got a
\* success Result, once every request has been answered.
ExactlyOneSucceeds ==
    (AllAnswered /\ DeletesOf(ExistingId) # {}) =>
        /\ Cardinality(SucceededOn(ExistingId)) = 1
        /\ OthersGetError(ExistingId)

\* Of the answered deletes of an id at most one got a success Result, and one
\* did exactly when the record has been removed.
AtMostOneSucceeds ==
    \A id \in NamedIds \cup EverStored :
        /\ Cardinality(SucceededOn(id)) <= 1
        /\ SucceededOn(id) # {} <=> (id \in EverStored /\ ~IsStored(tasks, id))
        /\ OthersGetError(id)

\* C13 as stated: delete_task returns True only if its call removed the
\* record; of concurrent requests that delete the same existing id exactly
\* one gets a success Result and the others an error naming the id; after a
\* successful delete later updates and deletes of the id fail and the record
\* never reappears.
C13_ExactlyOneDeleteSucceeds ==
    [][/\ DeleteTrueOnlyIfRemoved
       /\ ExactlyOneSucceeds'
       /\ LaterCallsFail
       /\ NeverReappears]_vars

\* C13 as amended: at most one of the concurrent deletes of an id gets a
\* success Result, exactly one when the record has been removed and none when
\* every delete_one raised (the record is then still stored); the others get
\* an error naming the id.
C13_AtMostOneDeleteSucceeds ==
    [][/\ DeleteTrueOnlyIfRemoved
       /\ AtMostOneSucceeds'
       /\ LaterCallsFail
       /\ NeverReappears]_vars

\* Every request deleted the stored task: one got success, the others an error
\* naming the id, and the record is gone.
C13_Witness ==
    /\ DeletesOf(ExistingId) = ConcReqs
    /\ Cardinality(SucceededOn(ExistingId)) = 1
    /\ ConcReqs \ SucceededOn(ExistingId) # {}
    /\ OthersGetError(ExistingId)
    /\ ~IsStored(tasks, ExistingId)

====
